---- MODULE Spec2Model ----
(***************************************************************************)
(* RalphLoopRunner (src/ralph_gui.py): the supervision loop that invokes   *)
(* the opencode agent, reads the sentinel files, and is steered by the     *)
(* operator commands start / stop / pause / resume / force_kill and the    *)
(* two missing-checkpoint decisions.                                       *)
(*                                                                         *)
(* Two threads share the Runner's fields: the worker thread (_run_loop)    *)
(* and the control thread that calls the operator commands.  The worker    *)
(* is cut into steps at every read or write of a field the control thread  *)
(* also touches; force_kill, the one command that is not a single          *)
(* assignment sequence on flags, is cut at its reads of the child handle.  *)
(* The agent is a child process that, while live, may create the done,     *)
(* blocked and checkpoint sentinels and exits with a zero or non-zero      *)
(* code; the stop sentinel may be created from outside at any time.        *)
(***************************************************************************)
EXTENDS Naturals, FiniteSets, Sequences, TLC

\* ---------------------------------------------------------------- bounds
\* max_attempts given to the constructor (40 in the GUI)
MaxAttempts == 2
\* how many times start() may be called on the one Runner instance
MaxStarts == 2
\* sleep_seconds given to the constructor (2 in the GUI)
SleepSeconds == 1

\* ------------------------------------------------------------- constants
\* _wait_with_state sleeps 0.5 s per poll: two polls per second of delay
PollsPerSecond == 2

PIN_SPEC == "RALPH-DESIGN.md"
PLAN_FILE == "RALPH-PLAN.md"
PROGRESS_FILE == "RALPH-PROGRESS.md"
DONE_FILE == "RALPH-COMPLETE.md"
BLOCKED_FILE == "RALPH-BLOCKED.md"
STOP_FILE == "RALPH-STOP"
CHECKPOINT_FILE == "RALPH-CHECKPOINT.md"

SentinelFiles ==
    {PIN_SPEC, PLAN_FILE, PROGRESS_FILE, DONE_FILE, BLOCKED_FILE, STOP_FILE,
     CHECKPOINT_FILE}

\* the files the agent writes as its protocol with the supervisor
AgentFiles == {DONE_FILE, BLOCKED_FILE, CHECKPOINT_FILE}

TerminalStatuses == {"completed", "blocked", "stopped", "failed"}

Statuses ==
    {"pending", "running", "paused", "missing_checkpoint"} \cup TerminalStatuses

\* the positions at which _run_loop has returned (the thread is dead)
ReturnedPcs ==
    {"ret_nospec", "ret_stop_paused", "ret_stop", "ret_done", "ret_blocked",
     "ret_stop_gate", "ret_decision_stop", "ret_exhausted", "ret_exception"}

\* the positions inside _invoke_opencode
InvokePcs == {"build_prompt", "popen", "poll", "terminate", "returncode"}

\* the positions inside _wait_with_state
WaitPcs == {"wait_set", "wait_loop"}

VARIABLES
    \* ---- fields of the Runner (RalphLoopRunner.__init__)
    status,                   \* _status
    current_attempt,          \* _current_attempt
    stop_requested,           \* _stop_requested
    error_message,            \* _error_message ("None" when unset)
    current_process,          \* _current_process: "None" or "Popen"
    is_waiting,               \* _is_waiting
    waiting_since,            \* _waiting_since is set (TRUE) or None (FALSE)
    waiting_duration,         \* _waiting_duration
    waiting_reason,           \* _waiting_reason
    pause_requested,          \* _pause_requested
    is_paused,                \* _is_paused
    missing_checkpoint_pause, \* _missing_checkpoint_pause
    user_continue_decision,   \* _user_continue_decision: "None", "True", "False"
    \* ---- the worker thread (_thread) and its locals
    pc,                       \* position of the worker in _run_loop
    attempt,                  \* loop variable of _run_loop's for statement
    reason,                   \* argument of the _wait_with_state call in progress
    elapsed,                  \* local of _wait_with_state, counted in polls
    \* ---- the control thread
    cpc,                      \* position inside force_kill, "idle" outside it
    \* ---- the environment
    files,                    \* the sentinel files present in the folder
    proc_state,               \* process behind the handle: "none", "running", "zero", "nonzero"
    orphans,                  \* live children no handle refers to any more
    \* ---- history
    starts,                   \* calls of start() that started a thread
    invocations,              \* children spawned by the current run
    fk_returned,              \* force_kill has returned during the current run
    stop_seen_at,             \* the wait or invocation that the first stop() of the run hit
    checked,                  \* the sentinel test of the current attempt: where, and what it saw
    decided,                  \* the first decision given at the gate the worker is in
    wait_log,                 \* reasons of the waits entered by the current run, kept for scripted runs
    \* ---- the setting
    script,                   \* what the agent does at each invocation; <<>> leaves it free
    other,                    \* a second Runner, supervising another directory
    task_status               \* RunningTask.status, the controlling layer's record of the task

vars ==
    <<status, current_attempt, stop_requested, error_message, current_process,
      is_waiting, waiting_since, waiting_duration, waiting_reason,
      pause_requested, is_paused, missing_checkpoint_pause,
      user_continue_decision, pc, attempt, reason, elapsed, cpc, files, proc_state,
      orphans, starts, invocations, fk_returned, stop_seen_at, checked,
      decided, wait_log, script, other, task_status>>

runner_flags ==
    <<pause_requested, is_paused, missing_checkpoint_pause,
      user_continue_decision>>

wait_fields == <<is_waiting, waiting_since, waiting_duration, waiting_reason>>

wait_locals == <<reason, elapsed>>

process == <<current_process, proc_state, orphans>>

history ==
    <<starts, invocations, fk_returned, stop_seen_at, checked, decided,
      wait_log>>

setting == <<script, other, task_status>>

\* a Runner as its constructor leaves it, seen from outside, and its folder
FreshRunner ==
    [status |-> "pending", current_attempt |-> 0, is_waiting |-> FALSE,
     is_paused |-> FALSE, missing_checkpoint_pause |-> FALSE,
     current_process |-> "None", files |-> {}]

\* no sentinel test made yet in this attempt
NotChecked == [at |-> "none", saw |-> {}]

\* ------------------------------------------------------ derived queries
\* RalphLoopRunner.is_running: the thread exists and is alive
is_running == pc \notin ({"nothread"} \cup ReturnedPcs)

\* the children of this Runner that are live
LiveChildren == orphans + (IF proc_state = "running" THEN 1 ELSE 0)

\* _file_exists
file_exists(f) == f \in files

\* _remove_file: delete if present, no error if absent
remove_file(fs, f) == fs \ {f}

\* ---------------------------------------------------------------- Init
\* The Runner as __init__ leaves it, no thread started, no history.
RunnerInit ==
    /\ status = "pending"
    /\ current_attempt = 0
    /\ stop_requested = FALSE
    /\ error_message = "None"
    /\ current_process = "None"
    /\ is_waiting = FALSE
    /\ waiting_since = FALSE
    /\ waiting_duration = 0
    /\ waiting_reason = ""
    /\ pause_requested = FALSE
    /\ is_paused = FALSE
    /\ missing_checkpoint_pause = FALSE
    /\ user_continue_decision = "None"
    /\ pc = "nothread"
    /\ attempt = 0
    /\ reason = ""
    /\ elapsed = 0
    /\ cpc = "idle"
    /\ proc_state = "none"
    /\ orphans = 0
    /\ starts = 0
    /\ invocations = 0
    /\ fk_returned = FALSE
    /\ stop_seen_at = "none"
    /\ checked = NotChecked
    /\ decided = "none"
    /\ wait_log = <<>>

\* a new Runner in a folder with any leftover files, an agent that does as it
\* likes, and a second Runner that has not been started
Init ==
    /\ RunnerInit
    /\ files \in SUBSET SentinelFiles
    /\ script = <<>>
    /\ other = FreshRunner
    /\ task_status = "running"

\* ------------------------------------------------- the operator commands
\* Each is called from the control thread, one at a time (cpc = "idle").

\* start(): refuses while the thread is alive, otherwise clears the stop
\* flag, sets running and starts a new thread at the top of _run_loop; n
\* bounds the number of such calls.
StartBounded(n) ==
    /\ cpc = "idle"
    /\ ~is_running
    /\ starts < n
    /\ stop_requested' = FALSE
    /\ status' = "running"
    /\ pc' = "run_start"
    /\ attempt' = 0
    /\ reason' = ""
    /\ elapsed' = 0
    /\ starts' = starts + 1
    /\ invocations' = 0
    /\ fk_returned' = FALSE
    /\ stop_seen_at' = "none"
    /\ checked' = NotChecked
    /\ wait_log' = <<>>
    /\ UNCHANGED <<current_attempt, error_message, runner_flags, wait_fields,
                   process, cpc, files, decided,
                   setting>>

\* start(), at most MaxStarts times
Start == StartBounded(MaxStarts)

\* start(), called once more on the same Runner than MaxStarts allows
Restart == StartBounded(MaxStarts + 1)

\* (mutant) start() does not test the thread: a second thread takes over
StartWhileRunning_Starts ==
    /\ cpc = "idle"
    /\ is_running
    /\ stop_requested' = FALSE
    /\ status' = "running"
    /\ pc' = "run_start"
    /\ UNCHANGED <<current_attempt, error_message, runner_flags, wait_fields,
                   process, attempt, wait_locals, cpc, files, history,
                   setting>>

\* start() while the thread is alive raises RuntimeError and changes nothing.
StartWhileRunning ==
    /\ cpc = "idle"
    /\ is_running
    /\ UNCHANGED vars

\* where the worker is when stop() arrives: polling a live child, in the loop
\* of a timed wait, or elsewhere
StopPoint ==
    IF pc = "poll" /\ proc_state = "running" THEN "invoke"
    ELSE IF pc = "wait_loop" THEN "wait"
    ELSE "none"

\* stop()
Stop ==
    /\ cpc = "idle"
    /\ stop_requested' = TRUE
    /\ stop_seen_at' = IF stop_requested THEN stop_seen_at ELSE StopPoint
    /\ UNCHANGED <<status, current_attempt, error_message, runner_flags,
                   wait_fields, process, pc, attempt, wait_locals, cpc, files,
                   starts, invocations, fk_returned, checked, decided,
                   wait_log, setting>>

\* (mutant) pause() queues a pause whether or not the Runner is paused
Pause_Always ==
    /\ cpc = "idle"
    /\ pause_requested' = TRUE
    /\ UNCHANGED <<status, current_attempt, stop_requested, error_message,
                   is_paused, missing_checkpoint_pause, user_continue_decision,
                   wait_fields, process, pc, attempt, wait_locals, cpc, files,
                   history,
                   setting>>

\* pause(): queued unless the Runner is paused already
Pause ==
    /\ cpc = "idle"
    /\ pause_requested' = (IF is_paused THEN pause_requested ELSE TRUE)
    /\ UNCHANGED <<status, current_attempt, stop_requested, error_message,
                   is_paused, missing_checkpoint_pause, user_continue_decision,
                   wait_fields, process, pc, attempt, wait_locals, cpc, files,
                   history,
                   setting>>

\* resume()
Resume ==
    /\ cpc = "idle"
    /\ is_paused' = FALSE
    /\ pause_requested' = FALSE
    /\ UNCHANGED <<status, current_attempt, stop_requested, error_message,
                   missing_checkpoint_pause, user_continue_decision,
                   wait_fields, process, pc, attempt, wait_locals, cpc, files,
                   history,
                   setting>>

\* the missing-checkpoint pause is active: the worker has raised the flag and
\* has not left the gate
GateActive ==
    missing_checkpoint_pause /\ pc \in {"gate_status", "gate_wait"}

\* what is remembered of a decision: the first one given while the pause of
\* the gate the worker is in was active
Decide(d) == IF GateActive /\ decided = "none" THEN d ELSE decided

\* continue_after_missing_checkpoint()
ContinueAfterMissingCheckpoint ==
    /\ cpc = "idle"
    /\ user_continue_decision' = "True"
    /\ missing_checkpoint_pause' = FALSE
    /\ decided' = Decide("continue")
    /\ UNCHANGED <<status, current_attempt, stop_requested, error_message,
                   pause_requested, is_paused, wait_fields, process, pc,
                   attempt, wait_locals, cpc, files, starts, invocations,
                   fk_returned, stop_seen_at, checked,
                   wait_log, setting>>

\* stop_after_missing_checkpoint()
StopAfterMissingCheckpoint ==
    /\ cpc = "idle"
    /\ user_continue_decision' = "False"
    /\ missing_checkpoint_pause' = FALSE
    /\ decided' = Decide("stop")
    /\ UNCHANGED <<status, current_attempt, stop_requested, error_message,
                   pause_requested, is_paused, wait_fields, process, pc,
                   attempt, wait_locals, cpc, files, starts, invocations,
                   fk_returned, stop_seen_at, checked,
                   wait_log, setting>>

\* The two decision methods as the interpreter runs them: two assignments,
\* between which the worker thread may run. The first stores the decision ...
DecisionStored(d, name) ==
    /\ cpc = "idle"
    /\ user_continue_decision' = d
    /\ decided' = Decide(name)
    /\ cpc' = "decision_lower"
    /\ UNCHANGED <<status, current_attempt, stop_requested, error_message,
                   pause_requested, is_paused, missing_checkpoint_pause,
                   wait_fields, process, pc, attempt, wait_locals, files,
                   starts, invocations, fk_returned, stop_seen_at, checked,
                   wait_log, setting>>

\* continue_after_missing_checkpoint(), line 808
ContinueDecisionStored == DecisionStored("True", "continue")

\* stop_after_missing_checkpoint(), line 813
StopDecisionStored == DecisionStored("False", "stop")

\* ... and the second lowers the flag of the gate (lines 809 and 814)
DecisionLowersFlag ==
    /\ cpc = "decision_lower"
    /\ missing_checkpoint_pause' = FALSE
    /\ cpc' = "idle"
    /\ UNCHANGED <<status, current_attempt, stop_requested, error_message,
                   pause_requested, is_paused, user_continue_decision,
                   wait_fields, process, pc, attempt, wait_locals, files,
                   history,
                   setting>>

\* ------------------------------------------------------------ force_kill
\* what terminate()/taskkill, wait(timeout) and the kill() fallback leave of
\* a process: a live one is dead with a non-zero code, a dead one is as it was
Killed(ps) == IF ps = "running" THEN "nonzero" ELSE ps

\* force_kill, first lines: set the stop flag, then test the handle
ForceKillBegin ==
    /\ cpc = "idle"
    /\ stop_requested' = TRUE
    /\ cpc' = IF current_process # "None" THEN "fk_pid" ELSE "fk_tail"
    /\ UNCHANGED <<status, current_attempt, error_message, runner_flags,
                   wait_fields, process, pc, attempt, wait_locals, files,
                   history,
                   setting>>

\* pid = self._current_process.pid, outside the try: if the worker has
\* cleared the handle since the test, AttributeError leaves force_kill
ForceKillPid ==
    /\ cpc = "fk_pid"
    /\ cpc' = IF current_process = "None" THEN "idle" ELSE "fk_kill"
    /\ UNCHANGED <<status, current_attempt, stop_requested, error_message,
                   runner_flags, wait_fields, process, pc, attempt,
                   wait_locals, files, history,
                   setting>>

\* the try block: terminate, wait up to 2 s, kill on any exception; with the
\* handle cleared meanwhile both attempts raise and are swallowed
ForceKillTerminate ==
    /\ cpc = "fk_kill"
    /\ proc_state' = IF current_process # "None" THEN Killed(proc_state)
                     ELSE proc_state
    /\ cpc' = "fk_clear"
    /\ UNCHANGED <<status, current_attempt, stop_requested, error_message,
                   runner_flags, wait_fields, current_process, orphans, pc,
                   attempt, wait_locals, files, history,
                   setting>>

\* dropping the handle: a process still live behind it is no longer reachable
Dropped(ps) == IF ps = "running" THEN 1 ELSE 0

\* self._current_process = None
ForceKillClear ==
    /\ cpc = "fk_clear"
    /\ current_process' = "None"
    /\ proc_state' = "none"
    /\ orphans' = orphans + Dropped(proc_state)
    /\ cpc' = "fk_tail"
    /\ UNCHANGED <<status, current_attempt, stop_requested, error_message,
                   runner_flags, wait_fields, pc, attempt, wait_locals, files,
                   history,
                   setting>>

\* the last three assignments of force_kill
ForceKillTail ==
    /\ cpc = "fk_tail"
    /\ is_waiting' = FALSE
    /\ is_paused' = FALSE
    /\ status' = "stopped"
    /\ cpc' = "idle"
    /\ fk_returned' = TRUE
    /\ UNCHANGED <<current_attempt, stop_requested, error_message,
                   pause_requested, missing_checkpoint_pause,
                   user_continue_decision, waiting_since, waiting_duration,
                   waiting_reason, process, pc, attempt, wait_locals, files,
                   starts, invocations, stop_seen_at, checked, decided,
                   wait_log, setting>>

\* ------------------------------------------------------ the worker thread
\* _set_waiting followed by the first lines of _wait_with_state
EnterWait(r) ==
    /\ reason' = r
    /\ pc' = "wait_set"

\* (mutant) an exception ends the thread and nothing records it
LoopFault_Unrecorded ==
    /\ status' = status
    /\ error_message' = error_message
    /\ pc' = "ret_exception"

\* an exception reaching the outer handler of _run_loop
LoopFault ==
    /\ status' = "failed"
    /\ error_message' = "exception"
    /\ pc' = "ret_exception"

\* (mutant) the design spec is not validated
SpecMissing_Never == FALSE

\* if not self._file_exists(self.PIN_SPEC)
SpecMissing == ~file_exists(PIN_SPEC)

\* the first statement of _run_loop: the design spec must exist
RunStart ==
    /\ pc = "run_start"
    /\ IF SpecMissing
       THEN /\ status' = "failed"
            /\ error_message' = "Missing RALPH-DESIGN.md"
            /\ pc' = "ret_nospec"
       ELSE /\ pc' = "scaffold"
            /\ UNCHANGED <<status, error_message>>
    /\ UNCHANGED <<current_attempt, stop_requested, runner_flags, wait_fields,
                   process, attempt, wait_locals, cpc, files, history,
                   setting>>

\* (mutant) the scaffolds are written relative to a place all Runners share
Scaffold_Elsewhere ==
    /\ pc = "scaffold"
    /\ files' = remove_file(remove_file(files, DONE_FILE), BLOCKED_FILE)
    /\ other' = [other EXCEPT !.files = @ \cup {PLAN_FILE, PROGRESS_FILE}]
    /\ pc' = "loop_head"
    /\ UNCHANGED <<status, current_attempt, stop_requested, error_message,
                   runner_flags, wait_fields, process, attempt, wait_locals,
                   cpc, history, script, task_status>>

\* (mutant) the scaffolds are written but the done and blocked files of a
\* previous run are left in the folder
Scaffold_KeepsLeftovers ==
    /\ pc = "scaffold"
    /\ files' = files \cup {PLAN_FILE, PROGRESS_FILE}
    /\ pc' = "loop_head"
    /\ UNCHANGED <<status, current_attempt, stop_requested, error_message,
                   runner_flags, wait_fields, process, attempt, wait_locals,
                   cpc, history,
                   setting>>

\* _scaffold_plan_file, _scaffold_progress_file, then the removal of the
\* done and blocked files of a previous run
Scaffold ==
    /\ pc = "scaffold"
    /\ files' = remove_file(remove_file(files \cup {PLAN_FILE, PROGRESS_FILE},
                                        DONE_FILE), BLOCKED_FILE)
    /\ pc' = "loop_head"
    /\ UNCHANGED <<status, current_attempt, stop_requested, error_message,
                   runner_flags, wait_fields, process, attempt, wait_locals,
                   cpc, history,
                   setting>>

\* _read_template_file raising while a scaffold is written: the plan file is
\* already there when it is the progress template that cannot be read
ScaffoldFault ==
    /\ pc = "scaffold"
    /\ \/ /\ ~file_exists(PLAN_FILE)
          /\ files' = files
       \/ /\ ~file_exists(PROGRESS_FILE)
          /\ files' = files \cup {PLAN_FILE}
    /\ LoopFault
    /\ UNCHANGED <<current_attempt, stop_requested, runner_flags, wait_fields,
                   process, attempt, wait_locals, cpc, history,
                   setting>>

\* (mutant) exhaustion sets failed and forgets the message
Exhausted_NoMessage ==
    /\ status' = "failed"
    /\ error_message' = error_message
    /\ pc' = "ret_exhausted"

\* after the for statement: "Max attempts reached without completion"
Exhausted ==
    /\ status' = "failed"
    /\ error_message' = "Max attempts reached"
    /\ pc' = "ret_exhausted"

\* the for statement: the next attempt, or the end of the loop
LoopHead ==
    /\ pc = "loop_head"
    /\ IF attempt < MaxAttempts
       THEN /\ attempt' = attempt + 1
            /\ current_attempt' = attempt + 1
            /\ pc' = "pause_check"
            /\ UNCHANGED <<status, error_message>>
       ELSE /\ Exhausted
            /\ UNCHANGED <<attempt, current_attempt>>
    /\ checked' = NotChecked
    /\ UNCHANGED <<stop_requested, runner_flags, wait_fields, process,
                   wait_locals, cpc, files, starts, invocations, fk_returned,
                   stop_seen_at, decided,
                   wait_log, setting>>

\* if self._pause_requested:
PauseCheck ==
    /\ pc = "pause_check"
    /\ pc' = IF pause_requested THEN "pause_enter" ELSE "stop_check"
    /\ UNCHANGED <<status, current_attempt, stop_requested, error_message,
                   runner_flags, wait_fields, process, attempt, wait_locals,
                   cpc, files, history,
                   setting>>

\* the three assignments that enter the pause
PauseEnter ==
    /\ pc = "pause_enter"
    /\ is_paused' = TRUE
    /\ pause_requested' = FALSE
    /\ status' = "paused"
    /\ pc' = "pause_wait"
    /\ UNCHANGED <<current_attempt, stop_requested, error_message,
                   missing_checkpoint_pause, user_continue_decision,
                   wait_fields, process, attempt, wait_locals, cpc, files,
                   history,
                   setting>>

\* (mutant) the stop test after the pause loop is missing
StopWhilePaused_Ignored == FALSE

\* if self._stop_requested: after the poll loop of the pause
StopWhilePaused == stop_requested

\* the poll loop of the pause and what follows it; while the Runner is paused
\* and no stop is requested the worker sleeps and polls again
PauseWait ==
    /\ pc = "pause_wait"
    /\ ~(is_paused /\ ~stop_requested)
    /\ IF StopWhilePaused
       THEN /\ status' = "stopped"
            /\ pc' = "ret_stop_paused"
       ELSE /\ status' = "running"
            /\ pc' = "stop_check"
    /\ UNCHANGED <<current_attempt, stop_requested, error_message,
                   runner_flags, wait_fields, process, attempt, wait_locals,
                   cpc, files, history,
                   setting>>

\* (mutant) the stop sentinel is not looked at
StopConditions_FlagOnly == stop_requested

\* self._stop_requested or self._file_exists(self.STOP_FILE)
StopConditions == stop_requested \/ file_exists(STOP_FILE)

\* the stop check at the start of an attempt
StopCheck ==
    /\ pc = "stop_check"
    /\ IF StopConditions
       THEN /\ status' = "stopped"
            /\ pc' = "ret_stop"
       ELSE /\ pc' = "pre_check"
            /\ UNCHANGED status
    /\ UNCHANGED <<current_attempt, stop_requested, error_message,
                   runner_flags, wait_fields, process, attempt, wait_locals,
                   cpc, files, history,
                   setting>>

\* (mutant) the checkpoint test is missing
SentinelBranch_NoCheckpoint(fs) ==
    IF DONE_FILE \in fs THEN "done"
    ELSE IF BLOCKED_FILE \in fs THEN "blocked"
    ELSE "none"

\* The done / blocked / checkpoint tests, the same before and after an
\* invocation: what the folder holds decides the branch.
SentinelBranch(fs) ==
    IF DONE_FILE \in fs THEN "done"
    ELSE IF BLOCKED_FILE \in fs THEN "blocked"
    ELSE IF CHECKPOINT_FILE \in fs THEN "checkpoint"
    ELSE "none"

\* (mutant) the done / blocked branch leaves the checkpoint file behind
PrecedenceCleanup_Skip(fs) == fs

\* done or blocked seen: "if the checkpoint file exists too, remove it"
PrecedenceCleanup(fs) ==
    IF CHECKPOINT_FILE \in fs THEN remove_file(fs, CHECKPOINT_FILE) ELSE fs

\* (mutant) the checkpoint branch deletes the done file instead
ConsumeCheckpoint_Other(fs) == remove_file(fs, DONE_FILE)

\* (mutant) the checkpoint branch forgets to delete the checkpoint file
ConsumeCheckpoint_Keep(fs) == fs

\* the checkpoint branch consumes the checkpoint file
ConsumeCheckpoint(fs) == remove_file(fs, CHECKPOINT_FILE)

\* the tests before the invocation
PreCheck ==
    /\ pc = "pre_check"
    /\ CASE SentinelBranch(files) = "done" ->
              /\ files' = PrecedenceCleanup(files)
              /\ status' = "completed"
              /\ pc' = "ret_done"
              /\ UNCHANGED reason
         [] SentinelBranch(files) = "blocked" ->
              /\ files' = PrecedenceCleanup(files)
              /\ status' = "blocked"
              /\ pc' = "ret_blocked"
              /\ UNCHANGED reason
         [] SentinelBranch(files) = "checkpoint" ->
              /\ files' = ConsumeCheckpoint(files)
              /\ EnterWait("checkpoint")
              /\ UNCHANGED status
         [] OTHER ->
              /\ pc' = "build_prompt"
              /\ UNCHANGED <<status, reason, files>>
    /\ checked' = [at |-> "pre", saw |-> files \cap AgentFiles]
    /\ UNCHANGED <<current_attempt, stop_requested, error_message,
                   runner_flags, wait_fields, process, attempt, elapsed, cpc,
                   starts, invocations, fk_returned, stop_seen_at, decided,
                   wait_log, setting>>

\* _build_prompt reads the prompt template
BuildPrompt ==
    /\ pc = "build_prompt"
    /\ pc' = "popen"
    /\ UNCHANGED <<status, current_attempt, stop_requested, error_message,
                   runner_flags, wait_fields, process, attempt, wait_locals,
                   cpc, files, history,
                   setting>>

\* _build_prompt raising (template unreadable): it is called outside the try
\* of _invoke_opencode, so the exception reaches the handler of _run_loop
BuildPromptFault ==
    /\ pc = "build_prompt"
    /\ LoopFault
    /\ UNCHANGED <<current_attempt, stop_requested, runner_flags, wait_fields,
                   process, attempt, wait_locals, cpc, files, history,
                   setting>>

\* (mutant) a failed invocation is tried again at once, in the same attempt
InvokeFailed_Retry ==
    /\ reason' = reason
    /\ pc' = "build_prompt"

\* (mutant) a failed invocation is followed by a cooldown wait
InvokeFailed_Cooldown == EnterWait("cooldown")

\* (mutant) a failed invocation ends the loop
InvokeFailed_Fatal ==
    /\ reason' = reason
    /\ pc' = "ret_exception"

\* _invoke_opencode returning False: "opencode failed; backing off"
InvokeFailed == EnterWait("backoff")

\* the two except clauses of _invoke_opencode
InvokeExcept(msg) ==
    /\ current_process' = "None"
    /\ proc_state' = "none"
    /\ orphans' = orphans + Dropped(proc_state)
    /\ error_message' = msg
    /\ InvokeFailed

\* subprocess.Popen succeeds: the handle refers to a new live child
Popen ==
    /\ pc = "popen"
    /\ current_process' = "Popen"
    /\ proc_state' = "running"
    /\ orphans' = orphans + Dropped(proc_state)
    /\ invocations' = invocations + 1
    /\ pc' = "poll"
    /\ UNCHANGED <<status, current_attempt, stop_requested, error_message,
                   runner_flags, wait_fields, attempt, wait_locals, cpc, files,
                   starts, fk_returned, stop_seen_at, checked, decided,
                   wait_log, setting>>

\* subprocess.Popen raises: FileNotFoundError records a message, any other
\* exception keeps the message there was
PopenFault ==
    /\ pc = "popen"
    /\ \/ InvokeExcept("opencode command not found")
       \/ InvokeExcept(error_message)
    /\ UNCHANGED <<status, current_attempt, stop_requested, runner_flags,
                   wait_fields, attempt, elapsed, cpc, files, history,
                   setting>>

\* (mutant) the poll loop does not wait for the child to exit
Exited_Always(ps) == TRUE

\* poll() is not None
Exited(ps) == ps # "running"

\* (mutant) a pause request interrupts the invocation as a stop request does
PollInterrupted_ByPause == stop_requested \/ pause_requested

\* if self._stop_requested: inside the poll loop
PollInterrupted == stop_requested

\* one turn of "while self._current_process.poll() is None": with the handle
\* cleared by force_kill the call raises; a live child and a stop request lead
\* to terminate; a live child and no stop request sleep 0.2 s and poll again
Poll ==
    /\ pc = "poll"
    /\ current_process = "None" \/ Exited(proc_state) \/ PollInterrupted
    /\ IF current_process = "None"
       THEN /\ InvokeExcept(error_message)
       ELSE /\ pc' = IF Exited(proc_state) THEN "returncode" ELSE "terminate"
            /\ UNCHANGED <<process, error_message, reason>>
    /\ UNCHANGED <<status, current_attempt, stop_requested, runner_flags,
                   wait_fields, attempt, elapsed, cpc, files, history,
                   setting>>

\* terminate(), wait(timeout=5), kill() on timeout, return False; the handle
\* is kept.  With the handle cleared meanwhile the call raises.
Terminate ==
    /\ pc = "terminate"
    /\ IF current_process = "None"
       THEN /\ InvokeExcept(error_message)
       ELSE /\ proc_state' = Killed(proc_state)
            /\ InvokeFailed
            /\ UNCHANGED <<current_process, orphans, error_message>>
    /\ UNCHANGED <<status, current_attempt, stop_requested, runner_flags,
                   wait_fields, attempt, elapsed, cpc, files, history,
                   setting>>

\* returncode is read, the handle cleared, and the code decides the result
ReturnCode ==
    /\ pc = "returncode"
    /\ IF current_process = "None"
       THEN /\ InvokeExcept(error_message)
       ELSE /\ current_process' = "None"
            /\ proc_state' = "none"
            /\ orphans' = orphans + Dropped(proc_state)
            /\ IF proc_state = "zero"
               THEN pc' = "post_check" /\ UNCHANGED reason
               ELSE InvokeFailed
            /\ UNCHANGED error_message
    /\ UNCHANGED <<status, current_attempt, stop_requested, runner_flags,
                   wait_fields, attempt, elapsed, cpc, files, history,
                   setting>>

\* the tests after a successful invocation
PostCheck ==
    /\ pc = "post_check"
    /\ CASE SentinelBranch(files) = "done" ->
              /\ files' = PrecedenceCleanup(files)
              /\ status' = "completed"
              /\ pc' = "ret_done"
              /\ UNCHANGED reason
         [] SentinelBranch(files) = "blocked" ->
              /\ files' = PrecedenceCleanup(files)
              /\ status' = "blocked"
              /\ pc' = "ret_blocked"
              /\ UNCHANGED reason
         [] SentinelBranch(files) = "checkpoint" ->
              /\ files' = ConsumeCheckpoint(files)
              /\ EnterWait("checkpoint")
              /\ UNCHANGED status
         [] OTHER ->
              /\ pc' = "gate_enter"
              /\ UNCHANGED <<status, reason, files>>
    /\ checked' = [at |-> "post", saw |-> files \cap AgentFiles]
    /\ UNCHANGED <<current_attempt, stop_requested, error_message,
                   runner_flags, wait_fields, process, attempt, elapsed, cpc,
                   starts, invocations, fk_returned, stop_seen_at, decided,
                   wait_log, setting>>

\* no checkpoint: self._missing_checkpoint_pause = True
GateEnter ==
    /\ pc = "gate_enter"
    /\ missing_checkpoint_pause' = TRUE
    /\ pc' = "gate_status"
    /\ UNCHANGED <<status, current_attempt, stop_requested, error_message,
                   pause_requested, is_paused, user_continue_decision,
                   wait_fields, process, attempt, wait_locals, cpc, files,
                   history,
                   setting>>

\* ... then the status and the reset of the decision
GateStatus ==
    /\ pc = "gate_status"
    /\ status' = "missing_checkpoint"
    /\ user_continue_decision' = "None"
    /\ pc' = "gate_wait"
    /\ UNCHANGED <<current_attempt, stop_requested, error_message,
                   pause_requested, is_paused, missing_checkpoint_pause,
                   wait_fields, process, attempt, wait_locals, cpc, files,
                   history,
                   setting>>

\* (mutant) the gate is deaf to a stop request
GateHolds_IgnoresStop == missing_checkpoint_pause

\* (mutant) the gate does not hold the worker
GateHolds_Never == FALSE

\* while self._missing_checkpoint_pause and not self._stop_requested
GateHolds == missing_checkpoint_pause /\ ~stop_requested

\* (mutant) anything but an explicit "continue" is taken as a stop decision
DecisionIsStop_Unless == user_continue_decision # "True"

\* if self._user_continue_decision is False
DecisionIsStop == user_continue_decision = "False"

\* the poll loop of the gate and what follows it; while the gate is up and no
\* stop is requested the worker sleeps and polls again
GateWait ==
    /\ pc = "gate_wait"
    /\ ~GateHolds
    /\ IF stop_requested
       THEN /\ status' = "stopped"
            /\ pc' = "ret_stop_gate"
            /\ UNCHANGED reason
       ELSE IF DecisionIsStop
       THEN /\ status' = "stopped"
            /\ pc' = "ret_decision_stop"
            /\ UNCHANGED reason
       ELSE /\ status' = "running"
            /\ EnterWait("cooldown")
    /\ decided' = "none"
    /\ UNCHANGED <<current_attempt, stop_requested, error_message,
                   runner_flags, wait_fields, process, attempt, elapsed, cpc,
                   files, starts, invocations, fk_returned, stop_seen_at,
                   checked,
                   wait_log, setting>>

\* the wait log of a scripted run with one more wait
Logged(log, r) == IF script # <<>> THEN Append(log, r) ELSE log

\* _set_waiting(reason, duration), elapsed = 0
WaitSet ==
    /\ pc = "wait_set"
    /\ is_waiting' = TRUE
    /\ waiting_since' = TRUE
    /\ waiting_duration' = SleepSeconds
    /\ waiting_reason' = reason
    /\ elapsed' = 0
    /\ pc' = "wait_loop"
    /\ wait_log' = Logged(wait_log, reason)
    /\ UNCHANGED <<status, current_attempt, stop_requested, error_message,
                   runner_flags, process, attempt, reason, cpc, files,
                   starts, invocations, fk_returned, stop_seen_at, checked,
                   decided, setting>>

\* while elapsed < duration and not self._stop_requested
WaitGoesOn == elapsed < SleepSeconds * PollsPerSecond /\ ~stop_requested

\* one turn of the wait loop: sleep 0.5 s, or leave through _clear_waiting
\* and go on to the next turn of the for statement
WaitLoop ==
    /\ pc = "wait_loop"
    /\ IF WaitGoesOn
       THEN /\ elapsed' = elapsed + 1
            /\ UNCHANGED <<wait_fields, reason, pc>>
       ELSE /\ is_waiting' = FALSE
            /\ waiting_since' = FALSE
            /\ waiting_duration' = 0
            /\ waiting_reason' = ""
            /\ reason' = ""
            /\ elapsed' = 0
            /\ pc' = "loop_head"
    /\ UNCHANGED <<status, current_attempt, stop_requested, error_message,
                   runner_flags, process, attempt, cpc, files, history,
                   setting>>

\* ------------------------------------------------------- the environment
\* an agent, while it runs, creates one of its sentinel files
AgentWrite ==
    /\ LiveChildren > 0
    /\ \E f \in AgentFiles \ files : files' = files \cup {f}
    /\ UNCHANGED <<status, current_attempt, stop_requested, error_message,
                   runner_flags, wait_fields, process, pc, attempt,
                   wait_locals, cpc, history,
                   setting>>

\* the agent exits by itself, with code zero or not
AgentExit ==
    /\ proc_state = "running"
    /\ proc_state' \in {"zero", "nonzero"}
    /\ UNCHANGED <<status, current_attempt, stop_requested, error_message,
                   runner_flags, wait_fields, current_process, orphans, pc,
                   attempt, wait_locals, cpc, files, history,
                   setting>>

\* a child that the Runner has lost the handle of exits by itself
OrphanExit ==
    /\ orphans > 0
    /\ orphans' = orphans - 1
    /\ UNCHANGED <<status, current_attempt, stop_requested, error_message,
                   runner_flags, wait_fields, current_process, proc_state, pc,
                   attempt, wait_locals, cpc, files, history,
                   setting>>

\* what an agent may be scripted to do at one invocation: exit non-zero
\* leaving no sentinel, or exit zero having written the checkpoint or the
\* done sentinel
Outcomes == {"fail", "checkpoint", "done"}

\* the exit code of a scripted outcome
ExitOf(o) == IF o = "fail" THEN "nonzero" ELSE "zero"

\* the sentinel a scripted outcome writes
WrittenBy(o) ==
    IF o = "checkpoint" THEN {CHECKPOINT_FILE}
    ELSE IF o = "done" THEN {DONE_FILE}
    ELSE {}

\* the agent of a scripted run: the child of the i-th invocation does what
\* script[i] says and exits
ScriptedAgentExit ==
    /\ proc_state = "running"
    /\ invocations \in DOMAIN script
    /\ proc_state' = ExitOf(script[invocations])
    /\ files' = files \cup WrittenBy(script[invocations])
    /\ UNCHANGED <<status, current_attempt, stop_requested, error_message,
                   runner_flags, wait_fields, current_process, orphans, pc,
                   attempt, wait_locals, cpc, history, setting>>

\* what the second Runner may look like from outside while it works in its
\* own folder
OtherRunnerStates ==
    {[FreshRunner EXCEPT !.status = st,
                         !.current_attempt = IF st = "pending" THEN 0 ELSE 1,
                         !.files = fs] :
        st \in {"pending", "running"}, fs \in SUBSET {CHECKPOINT_FILE}}

\* a step of the second Runner, of its agent, or a command given to it
OtherRunnerStep ==
    /\ other' \in OtherRunnerStates \ {other}
    /\ UNCHANGED <<status, current_attempt, stop_requested, error_message,
                   runner_flags, wait_fields, process, pc, attempt,
                   wait_locals, cpc, files, history, script,
                   task_status>>

\* somebody drops RALPH-STOP into the folder
ExternalStopFile ==
    /\ ~file_exists(STOP_FILE)
    /\ files' = files \cup {STOP_FILE}
    /\ UNCHANGED <<status, current_attempt, stop_requested, error_message,
                   runner_flags, wait_fields, process, pc, attempt,
                   wait_locals, cpc, history,
                   setting>>

\* ------------------------------------------------------ the specification
Worker ==
    \/ RunStart
    \/ Scaffold
    \/ ScaffoldFault
    \/ LoopHead
    \/ PauseCheck
    \/ PauseEnter
    \/ PauseWait
    \/ StopCheck
    \/ PreCheck
    \/ BuildPrompt
    \/ BuildPromptFault
    \/ Popen
    \/ PopenFault
    \/ Poll
    \/ Terminate
    \/ ReturnCode
    \/ PostCheck
    \/ GateEnter
    \/ GateStatus
    \/ GateWait
    \/ WaitSet
    \/ WaitLoop

Control ==
    \/ Start
    \/ StartWhileRunning
    \/ Stop
    \/ Pause
    \/ Resume
    \/ ContinueAfterMissingCheckpoint
    \/ StopAfterMissingCheckpoint
    \/ ForceKillBegin
    \/ ForceKillPid
    \/ ForceKillTerminate
    \/ ForceKillClear
    \/ ForceKillTail

Environment ==
    \/ AgentWrite
    \/ AgentExit
    \/ OrphanExit
    \/ ExternalStopFile

Next == Worker \/ Control \/ Environment

Spec == Init /\ [][Next]_vars

\* The same Runner in a folder that holds the design spec alone, restarted
\* after its run has ended, and an operator who leaves the decisions alone.
InitRestarts == Init /\ files = {PIN_SPEC}

ControlRestarts ==
    \/ Restart
    \/ StartWhileRunning
    \/ Stop
    \/ Pause
    \/ Resume
    \/ ForceKillBegin
    \/ ForceKillPid
    \/ ForceKillTerminate
    \/ ForceKillClear
    \/ ForceKillTail

EnvironmentRestarts ==
    \/ AgentWrite
    \/ AgentExit
    \/ OrphanExit

NextRestarts == Worker \/ ControlRestarts \/ EnvironmentRestarts

SpecRestarts == InitRestarts /\ [][NextRestarts]_vars

\* The Runner under stop(): a folder that holds the design spec alone, an
\* operator who starts, stops, pauses, resumes and answers "continue", and a
\* worker thread that the scheduler does not starve.
ControlStops ==
    \/ Start
    \/ Stop
    \/ Pause
    \/ Resume
    \/ ContinueAfterMissingCheckpoint

EnvironmentStops ==
    \/ AgentWrite
    \/ AgentExit

NextStops == Worker \/ ControlStops \/ EnvironmentStops

SpecStops == InitRestarts /\ [][NextStops]_vars /\ WF_vars(Worker)

\* the same operations on a folder that holds any files left by earlier runs
SpecLeftovers == Init /\ [][NextStops]_vars

\* A scripted run: the folder holds the design spec and perhaps the plan and
\* progress files, the agent follows a script fixed beforehand, nothing
\* fails but the agent, and the operator only starts the Runner.
InitScripted ==
    /\ RunnerInit
    /\ files \in {{PIN_SPEC} \cup fs : fs \in SUBSET {PLAN_FILE, PROGRESS_FILE}}
    /\ script \in [1..MaxAttempts -> Outcomes]
    /\ other = FreshRunner
    /\ task_status = "running"

WorkerScripted ==
    \/ RunStart
    \/ Scaffold
    \/ LoopHead
    \/ PauseCheck
    \/ StopCheck
    \/ PreCheck
    \/ BuildPrompt
    \/ Popen
    \/ Poll
    \/ ReturnCode
    \/ PostCheck
    \/ WaitSet
    \/ WaitLoop

NextScripted == WorkerScripted \/ Start \/ ScriptedAgentExit

SpecScripted == InitScripted /\ [][NextScripted]_vars

\* The gate decisions taken assignment by assignment, next to start, stop,
\* pause and resume.
ControlDecisions ==
    \/ Start
    \/ Stop
    \/ Pause
    \/ Resume
    \/ ContinueDecisionStored
    \/ StopDecisionStored
    \/ DecisionLowersFlag

NextDecisions == Worker \/ ControlDecisions \/ EnvironmentStops

SpecDecisions == InitRestarts /\ [][NextDecisions]_vars

\* ------------------------------------------------- the controlling layer
\* the files _move_files_to_backup takes out of the folder of a task
BackupFiles == {PIN_SPEC, PROGRESS_FILE, DONE_FILE, PLAN_FILE}

\* the three tests _update_task_status makes on a task of the running list,
\* in its order; "running" when none applies
TaskVerdict ==
    IF file_exists(DONE_FILE) /\ ~is_running
    THEN "completed"
    ELSE IF file_exists(BLOCKED_FILE)
    THEN "blocked"
    ELSE IF ~is_running /\ status \in TerminalStatuses
    THEN status
    ELSE "running"

\* _update_task_status, the periodic callback of the GUI thread, when it
\* finalises the task: status recorded, files moved to the backup, task
\* dropped from the running list (it holds the tasks of status "running").
\* The task is put on the list right after runner.start().
UpdateTaskStatus ==
    /\ cpc = "idle"
    /\ starts >= 1
    /\ task_status = "running"
    /\ TaskVerdict # "running"
    /\ task_status' = TaskVerdict
    /\ files' = files \ BackupFiles
    /\ UNCHANGED <<status, current_attempt, stop_requested, error_message,
                   runner_flags, wait_fields, process, pc, attempt,
                   wait_locals, cpc, history, script, other>>

\* the GUI makes one Runner for a task and starts it once
StartTask == StartBounded(1)

ControlGui ==
    \/ StartTask
    \/ Stop
    \/ Pause
    \/ Resume
    \/ ContinueAfterMissingCheckpoint
    \/ UpdateTaskStatus

NextGui == Worker \/ ControlGui \/ EnvironmentStops

SpecGui == InitRestarts /\ [][NextGui]_vars

\* Two Runners at work, each in its own folder.
NextTwoRunners == NextStops \/ OtherRunnerStep

SpecTwoRunners == InitRestarts /\ [][NextTwoRunners]_vars

\* ================================================================ claims

\* ---- C1
\* C1: the four terminal statuses are absorbing: once status is completed,
\* blocked, stopped or failed, no step other than a start() changes it (the
\* worker's steps and stop, pause, resume, force_kill and the two decisions).
C1_TerminalAbsorbing ==
    [][(status \in TerminalStatuses /\ starts' = starts) => status' = status]_vars

\* ---- C2
\* C2: in every reachable state at most one child process of the Runner is
\* live, whatever the sequence of start, stop, pause, resume, force_kill and
\* decisions.
C2_AtMostOneLiveChild == LiveChildren <= 1

\* ---- C3
\* C3: once force_kill has returned, the Runner has no live child process,
\* wherever the worker was when force_kill ran.
C3_NoLiveChildAfterForceKill == fk_returned => LiveChildren = 0

\* ---- C4
\* C4: at either sentinel test, a done or blocked file found together with
\* the checkpoint file ends the run completed (done) or blocked (blocked),
\* never through the checkpoint branch, and the checkpoint file is gone when
\* that status is set.
C4_DoneBlockedPrecedence ==
    [][(/\ pc \in {"pre_check", "post_check"}
        /\ pc' # pc
        /\ CHECKPOINT_FILE \in files
        /\ (DONE_FILE \in files \/ BLOCKED_FILE \in files))
       => (/\ CHECKPOINT_FILE \notin files'
           /\ IF DONE_FILE \in files
              THEN status' = "completed" /\ pc' = "ret_done"
              ELSE status' = "blocked" /\ pc' = "ret_blocked")]_vars

\* the test after an invocation saw blocked and checkpoint together
C4_Witness ==
    /\ pc = "ret_blocked"
    /\ checked = [at |-> "post", saw |-> {BLOCKED_FILE, CHECKPOINT_FILE}]
    /\ status = "blocked"
    /\ CHECKPOINT_FILE \notin files

\* ---- C5
\* C5: a run whose first stop() arrived while an invocation was in flight
\* ends with status stopped, whichever attempt it was (left aside the runs in
\* which the agent finished with a done or blocked file before the worker
\* polled again).
C5_StopDuringInvocationEndsStopped ==
    (/\ pc \in ReturnedPcs \ {"ret_done", "ret_blocked"}
     /\ stop_seen_at = "invoke")
    => status = "stopped"

\* ---- C6
\* C6: a run whose first stop() arrived during a timed wait ends with status
\* stopped, whichever attempt it was.
C6_StopDuringWaitEndsStopped ==
    (pc \in ReturnedPcs /\ stop_seen_at = "wait") => status = "stopped"

\* ---- C7
\* C7: a run that leaves the loop by exhaustion with no stop requested is
\* failed, at attempt max_attempts, with the message "Max attempts reached".
C7_ExhaustionFails ==
    (pc = "ret_exhausted" /\ ~stop_requested)
    => (/\ status = "failed"
        /\ error_message = "Max attempts reached"
        /\ current_attempt = MaxAttempts)

\* the loop ran out of attempts and nobody asked for a stop
C7_Witness ==
    /\ pc = "ret_exhausted"
    /\ ~stop_requested
    /\ status = "failed"
    /\ attempt = MaxAttempts

\* ---- C8
\* C8: with the design spec absent at the start of the run, the first step of
\* the worker ends the run failed with a message, touching no file, no
\* attempt counter and no process; a run ended that way has made no attempt
\* and no invocation.
C8_MissingDesignFailsAtOnce ==
    /\ [](pc = "ret_nospec"
          => (/\ current_attempt = 0
              /\ invocations = 0
              /\ LiveChildren = 0
              /\ PIN_SPEC \notin files))
    /\ [][(pc = "run_start" /\ pc' # pc /\ PIN_SPEC \notin files)
          => (/\ pc' = "ret_nospec"
              /\ status' = "failed"
              /\ error_message' = "Missing RALPH-DESIGN.md"
              /\ files' = files
              /\ UNCHANGED <<current_attempt, attempt, invocations, process>>)]_vars

\* a run ended at the design-spec validation, leftover sentinels untouched
C8_Witness ==
    /\ pc = "ret_nospec"
    /\ status = "failed"
    /\ {DONE_FILE, CHECKPOINT_FILE} \subseteq files
    /\ PLAN_FILE \notin files

C11_PauseOnlyAtBoundary ==
    /\ [][(/\ pc = "poll"
           /\ current_process # "None"
           /\ proc_state = "running"
           /\ ~stop_requested)
          => pc' = "poll"]_vars
    /\ [][(/\ proc_state = "running"
           /\ proc_state' # "running"
           /\ pause_requested
           /\ ~stop_requested)
          => (/\ pc' = pc
              /\ cpc' = cpc
              /\ proc_state' \in {"zero", "nonzero"})]_vars
    /\ [][((status' = "paused" /\ status # "paused") \/ (is_paused' /\ ~is_paused))
          => (/\ pc = "pause_enter"
              /\ pc' = "pause_wait"
              /\ checked = NotChecked
              /\ proc_state # "running")]_vars

\* a pause was requested while the child of attempt 1 runs; it still runs
C11_Witness ==
    /\ pc = "poll"
    /\ proc_state = "running"
    /\ pause_requested
    /\ ~stop_requested
    /\ attempt = 1
    /\ status = "running"

\* ---- C12
\* C12: the test after a successful invocation that sees no done, blocked or
\* checkpoint file leads to the gate: the pause flag is raised, the status
\* becomes missing_checkpoint, and as long as the flag is up and no stop is
\* requested the worker stays at the gate, with the status missing_checkpoint,
\* no child spawned and the attempt counter as it was.
C12_GateBlocks ==
    /\ []((pc = "gate_wait" /\ missing_checkpoint_pause /\ ~stop_requested)
          => (/\ status = "missing_checkpoint"
              /\ proc_state # "running"
              /\ checked = [at |-> "post", saw |-> {}]))
    /\ [][(pc = "post_check" /\ pc' # pc /\ files \cap AgentFiles = {})
          => pc' = "gate_enter"]_vars
    /\ [][(pc = "gate_enter" /\ pc' # pc)
          => (missing_checkpoint_pause' /\ pc' = "gate_status")]_vars
    /\ [][(pc = "gate_status" /\ pc' # pc)
          => (status' = "missing_checkpoint" /\ pc' = "gate_wait")]_vars
    /\ [][(pc = "gate_wait" /\ missing_checkpoint_pause /\ ~stop_requested)
          => (/\ pc' = "gate_wait"
              /\ UNCHANGED <<attempt, current_attempt, invocations>>
              /\ proc_state' # "running")]_vars

\* the worker is held at the gate of attempt 1: no decision, no stop
C12_Witness ==
    /\ pc = "gate_wait"
    /\ status = "missing_checkpoint"
    /\ missing_checkpoint_pause
    /\ ~stop_requested
    /\ decided = "none"
    /\ attempt = 1
    /\ invocations = 1

\* ---- C13
\* C13 (as stated): the worker leaves the gate on a "continue" decision, with
\* no stop requested and no stop decision, by setting the status to running
\* and entering a cooldown wait; the cooldown wait leads to the head of the
\* loop; and the loop then begins the next attempt, the attempt counter one
\* higher, whichever attempt the gate belonged to.
C13_ContinueAdvances ==
    /\ [][(/\ pc = "gate_wait"
           /\ pc' # pc
           /\ decided = "continue"
           /\ user_continue_decision # "False"
           /\ ~stop_requested)
          => (status' = "running" /\ pc' = "wait_set" /\ reason' = "cooldown")]_vars
    /\ [][(pc \in WaitPcs /\ reason = "cooldown" /\ pc' \notin WaitPcs)
          => pc' = "loop_head"]_vars
    /\ [][(/\ pc = "loop_head"
           /\ pc' # pc
           /\ checked = [at |-> "post", saw |-> {}]
           /\ user_continue_decision = "True")
          => (current_attempt' = current_attempt + 1 /\ pc' = "pause_check")]_vars

\* C13 (amended): the same, except that after the gate of attempt
\* max_attempts there is no next attempt: the cooldown wait is followed by
\* the end of the loop, status failed with "Max attempts reached", and the
\* attempt counter stays.
C13_ContinueProceeds ==
    /\ [][(/\ pc = "gate_wait"
           /\ pc' # pc
           /\ decided = "continue"
           /\ user_continue_decision # "False"
           /\ ~stop_requested)
          => (status' = "running" /\ pc' = "wait_set" /\ reason' = "cooldown")]_vars
    /\ [][(pc \in WaitPcs /\ reason = "cooldown" /\ pc' \notin WaitPcs)
          => pc' = "loop_head"]_vars
    /\ [][(/\ pc = "loop_head"
           /\ pc' # pc
           /\ checked = [at |-> "post", saw |-> {}]
           /\ user_continue_decision = "True")
          => IF current_attempt < MaxAttempts
             THEN current_attempt' = current_attempt + 1 /\ pc' = "pause_check"
             ELSE /\ current_attempt' = current_attempt
                  /\ status' = "failed"
                  /\ error_message' = "Max attempts reached"
                  /\ pc' = "ret_exhausted"]_vars

\* after a "continue" at the gate of attempt 1 the cooldown wait has run its
\* time and the loop is about to begin attempt 2
C13_Witness ==
    /\ pc = "loop_head"
    /\ checked = [at |-> "post", saw |-> {}]
    /\ user_continue_decision = "True"
    /\ attempt = 1
    /\ invocations = 1
    /\ status = "running"
    /\ ~is_waiting
    /\ ~stop_requested

\* ---- C14
\* C14: when the first decision given while the missing-checkpoint pause of
\* the gate was active is "stop", and no "continue" has been given since, the
\* worker leaves the gate by ending the run with status stopped, however the
\* decision call was interleaved with the worker's entry into the gate.
C14_StopDecisionEndsStopped ==
    [][(/\ pc = "gate_wait"
        /\ pc' # pc
        /\ decided = "stop"
        /\ user_continue_decision # "True")
       => (status' = "stopped" /\ pc' \in ReturnedPcs)]_vars

\* ---- C15
\* C15: an invocation that does not succeed (launch error, non-zero exit,
\* child terminated) leaves the status as it was and enters a wait with
\* reason "backoff"; nobody is failed while in that wait; the wait leads to
\* the head of the loop; and from there, attempts remaining, the next attempt
\* begins and, with no stop requested, no stop file and no sentinel present,
\* goes to the invocation.
C15_InvocationFailureNotFatal ==
    /\ []((pc \in WaitPcs /\ reason = "backoff") => status # "failed")
    /\ [][(/\ pc \in {"popen", "poll", "terminate", "returncode"}
           /\ pc' \notin InvokePcs
           /\ pc' # "post_check")
          => (pc' = "wait_set" /\ reason' = "backoff" /\ status' = status)]_vars
    /\ [][(pc \in WaitPcs /\ reason = "backoff" /\ pc' \notin WaitPcs)
          => pc' = "loop_head"]_vars
    /\ [][(pc = "loop_head" /\ pc' # pc /\ attempt < MaxAttempts)
          => (/\ pc' = "pause_check"
              /\ attempt' = attempt + 1
              /\ status' = status)]_vars
    /\ [][(/\ pc = "stop_check"
           /\ pc' # pc
           /\ ~stop_requested
           /\ STOP_FILE \notin files)
          => pc' = "pre_check"]_vars
    /\ [][(pc = "pre_check" /\ pc' # pc /\ files \cap AgentFiles = {})
          => pc' = "build_prompt"]_vars

\* the launch of attempt 1 failed (command not found); the agent of attempt 2
\* is running
C15_Witness ==
    /\ pc = "poll"
    /\ proc_state = "running"
    /\ attempt = 2
    /\ invocations = 1
    /\ error_message = "opencode command not found"
    /\ status = "running"
    /\ starts = 1

\* ---- C16
\* C16: whenever the worker thread has ended, the status is completed,
\* blocked, stopped or failed; and the step by which a fault raised in the
\* loop body ends the thread sets the status failed and records the fault's
\* message.
C16_DeadThreadIsTerminal ==
    /\ [](pc \in ReturnedPcs => status \in TerminalStatuses)
    /\ [][(pc' = "ret_exception" /\ pc # "ret_exception")
          => (status' = "failed" /\ error_message' = "exception")]_vars

\* the prompt template could not be read in attempt 1: thread ended, failed
C16_Witness ==
    /\ pc = "ret_exception"
    /\ status = "failed"
    /\ error_message = "exception"
    /\ attempt = 1
    /\ invocations = 0
    /\ PLAN_FILE \in files

\* ---- C17
\* C17: no step of the worker or of any operator command makes the attempt
\* counter of the Runner smaller.
C17_AttemptNeverDecreases ==
    [][current_attempt' >= current_attempt]_vars

\* ---- C18
\* C18: once the thread has ended with a terminal status, no step (a call of
\* start() in particular) brings the status back to running or gives the
\* Runner a live worker thread again.
C18_NoRestartAfterTerminal ==
    [][(status \in TerminalStatuses /\ ~is_running)
       => (status' # "running" /\ ~is_running' /\ starts' = starts)]_vars

\* ---- C19
\* C19: while the worker thread is alive no step starts a thread: the count
\* of started threads stays, the worker is not sent back to the top of
\* _run_loop, the stop flag is not cleared, and a step that moves neither
\* thread and leaves the stop flag (as the refused call does) leaves the
\* status and the attempt counter as they were.
C19_StartWhileAliveChangesNothing ==
    [][is_running
       => (/\ starts' = starts
           /\ pc' = "run_start" => pc = "run_start"
           /\ stop_requested => stop_requested'
           /\ (pc' = pc /\ cpc' = cpc /\ cpc = "idle"
                 /\ stop_requested' = stop_requested)
              => UNCHANGED <<status, current_attempt, attempt>>)]_vars

\* the thread is alive in its second attempt, a stop is pending and the child
\* runs: a state in which start() is refused
C19_Witness ==
    /\ is_running
    /\ pc = "poll"
    /\ proc_state = "running"
    /\ stop_requested
    /\ attempt = 2
    /\ cpc = "idle"

\* ---- C20
\* C20: once force_kill has returned, the run it ended neither raises the
\* attempt counter nor spawns another child.
C20_ForceKillEndsIteration ==
    [][fk_returned
       => (current_attempt' <= current_attempt /\ invocations' <= invocations)]_vars

\* ---- C21
\* C21: once force_kill has returned, is_waiting and is_paused are false in
\* every later state of the run, wherever the worker was.
C21_ForceKillClearsWaitAndPause ==
    fk_returned => (~is_waiting /\ ~is_paused)

\* ---- C22
\* C22: when the worker, paused, finds a stop requested, it ends the run in
\* that step with status stopped: the folder is left as it is, no sentinel
\* test is made and no child is spawned.
C22_StopWhilePausedEndsRun ==
    /\ [][(pc = "pause_wait" /\ stop_requested /\ pc' # pc)
          => (/\ status' = "stopped"
              /\ pc' = "ret_stop_paused"
              /\ files' = files
              /\ UNCHANGED <<invocations, process, checked>>)]_vars
    /\ [](pc = "ret_stop_paused"
          => (checked = NotChecked /\ proc_state # "running"))

\* a run stopped while paused at the boundary of attempt 2, the checkpoint
\* file written during attempt 1 still in the folder
C22_Witness ==
    /\ pc = "ret_stop_paused"
    /\ status = "stopped"
    /\ attempt = 2
    /\ invocations = 1
    /\ CHECKPOINT_FILE \in files
    /\ ~fk_returned

\* ---- C23
\* C23: at the stop check of an attempt, a stop request or the stop sentinel
\* ends the run in that step with status stopped, whatever other sentinels
\* are present: the folder (the checkpoint file included) is left as it is,
\* no sentinel test has been made in the attempt and no child is spawned.
C23_StopCheckComesFirst ==
    /\ [][(/\ pc = "stop_check"
           /\ pc' # pc
           /\ (stop_requested \/ STOP_FILE \in files))
          => (/\ status' = "stopped"
              /\ pc' = "ret_stop"
              /\ files' = files
              /\ checked = NotChecked
              /\ UNCHANGED <<invocations, process, checked>>)]_vars
    /\ [](pc \in {"pause_check", "pause_enter", "pause_wait", "stop_check"}
          => checked = NotChecked)

\* the stop sentinel alone ended the run at attempt 2 although the done and
\* checkpoint files are there, both still in the folder
C23_Witness ==
    /\ pc = "ret_stop"
    /\ status = "stopped"
    /\ ~stop_requested
    /\ {STOP_FILE, DONE_FILE, CHECKPOINT_FILE} \subseteq files
    /\ attempt = 2
    /\ checked = NotChecked

\* ---- C24
\* C24: whenever a stop is requested while the worker thread is alive, the
\* thread eventually ends, wherever the worker is: at the pause boundary, in
\* a timed wait, polling a child, or at the missing-checkpoint gate.
C24_StopEndsThread ==
    (stop_requested /\ is_running) ~> ~is_running

\* a stop has been requested while the worker is held at the gate
C24_Witness ==
    /\ stop_requested
    /\ pc = "gate_wait"
    /\ missing_checkpoint_pause
    /\ status = "missing_checkpoint"

C27_ResumeClearsBothFlags ==
    [][(/\ ~pause_requested
        /\ ~is_paused
        /\ pause_requested' = pause_requested)
       => ~is_paused']_vars

\* ---- C28
\* C28: no step takes a Runner from status pending straight to completed,
\* blocked, stopped or failed.
C28_PendingNeverTerminal ==
    [][status = "pending" => status' \notin TerminalStatuses]_vars

C30_OneInvocationPerAttempt ==
    /\ invocations <= current_attempt
    /\ invocations <= attempt
    /\ current_attempt <= MaxAttempts
    /\ attempt <= MaxAttempts

\* the child of the last attempt runs, one child spawned in every attempt
C30_Witness ==
    /\ invocations = MaxAttempts
    /\ current_attempt = MaxAttempts
    /\ pc = "poll"
    /\ proc_state = "running"

\* ---- C31
\* C31: while the Runner is paused no step queues a pause (a pause() then is
\* dropped, leaving the flags and the status as they are), and the resume()
\* that ends the pause leaves both flags false: nothing is queued behind it.
C31_PauseWhilePausedDropped ==
    /\ [][(is_paused /\ ~pause_requested) => ~pause_requested']_vars
    /\ [][(is_paused /\ ~is_paused' /\ cpc = "idle")
          => (~pause_requested' /\ status' = status /\ pc' = pc)]_vars

\* the Runner is paused at the boundary of attempt 2: a pause() now is dropped
C31_Witness ==
    /\ is_paused
    /\ status = "paused"
    /\ pc = "pause_wait"
    /\ ~pause_requested
    /\ ~stop_requested
    /\ attempt = 2
    /\ cpc = "idle"

\* ---- C32
\* C32: whenever is_waiting is false the other wait fields are cleared: the
\* reason empty, the duration 0, the start time unset.
C32_ExitWaitClearsFields ==
    ~is_waiting
    => (waiting_reason = "" /\ waiting_duration = 0 /\ ~waiting_since)

\* ---- C33
\* C33: force_kill is left only by returning, never by an exception; and a
\* worker that finds the child handle cleared under it goes on to the backoff
\* wait as after any failed invocation.
C33_HandleRaceAbsorbed ==
    /\ [][(cpc # "idle" /\ cpc' = "idle") => fk_returned']_vars
    /\ [][(/\ pc \in {"poll", "terminate", "returncode"}
           /\ current_process = "None"
           /\ pc' # pc)
          => (pc' = "wait_set" /\ reason' = "backoff")]_vars

\* ---- C34
\* C34: the step that follows the design-spec check deletes the done and
\* blocked files, before attempt 1; so a run whose folder held such a file at
\* start() ends completed or blocked only after an invocation of that run.
C34_LeftoversDeletedAtStart ==
    /\ [][(pc = "scaffold" /\ pc' = "loop_head")
          => (/\ DONE_FILE \notin files'
              /\ BLOCKED_FILE \notin files'
              /\ attempt' = 0
              /\ invocations' = 0)]_vars
    /\ [][(pc' \in {"ret_done", "ret_blocked"} /\ pc' # pc)
          => invocations >= 1]_vars

\* a run has passed the design-spec check with both files left in the folder
C34_Witness ==
    /\ pc = "scaffold"
    /\ status = "running"
    /\ DONE_FILE \in files
    /\ BLOCKED_FILE \in files
    /\ invocations = 0

\* ---- C35
\* C35: a run does not end failed by exhaustion while a done or a blocked
\* file is in the folder.
C35_NoExhaustionOverSentinel ==
    [][(pc' = "ret_exhausted" /\ pc' # pc)
       => (DONE_FILE \notin files /\ BLOCKED_FILE \notin files)]_vars

\* ---- C36
\* C36: the gate flag is up only in status missing_checkpoint (or in the one
\* step between the raising of the flag and the assignment of that status).
C36_GateFlagOnlyAtGate ==
    missing_checkpoint_pause
    => (status = "missing_checkpoint" \/ pc = "gate_status")

\* ---- C37
\* C37: whenever is_waiting is true the status is running.
C37_WaitOnlyWhileRunning ==
    is_waiting => status = "running"

\* ---- C38
\* C38: no child process is live while the Runner is paused, in a timed
\* wait, at the gate, or after its worker thread has ended.
C38_ChildLiveOnlyInInvoke ==
    (pc \in (WaitPcs \cup ReturnedPcs \cup {"pause_wait", "gate_wait"}))
    => LiveChildren = 0

\* ---- C39
\* C39: a decision call does not change the status, and in the first run of
\* a Runner (no flag left up by an earlier run) the worker leaves the gate,
\* stop request aside, only after a decision that was issued while the pause
\* of that gate was up.
C39_EarlyDecisionDiscarded ==
    /\ [][(user_continue_decision' # user_continue_decision /\ pc' = pc)
          => status' = status]_vars
    /\ [][(/\ pc = "gate_wait"
           /\ pc' # pc
           /\ ~stop_requested
           /\ starts = 1)
          => decided \in {"continue", "stop"}]_vars

\* ---- C40
\* C40: the controlling layer finalises a task only when the worker thread of
\* its Runner is no longer alive.
C40_FinaliseAfterThreadEnd ==
    [][(task_status' # task_status) => ~is_running]_vars

====
